---- MODULE Spec2Model ----
(***************************************************************************)
(* Model of the LiveSplit auto splitter for PAC-MAN WORLD Re-PAC           *)
(* (src/src/lib.rs): the watcher set, the update step, the four decision   *)
(* predicates and one iteration of the control loop of main.               *)
(***************************************************************************)
EXTENDS Integers, Sequences, FiniteSets, TLC

VARIABLES
    watchers,      \* Watchers: one Watcher (an optional Pair) per tracked quantity
    settings,      \* Settings: the registered flags, read-only after registration
    timer,         \* the host timer: its state and whether game time is paused
    timer_state,   \* main's local timer_state, as read at line 50 of the last tick
    cmds,          \* the timer commands the last tick issued, in order
    reads,         \* the raw reads of the last tick (None before a session's first)
    seen_valid,    \* whether this session has read a raw level id in (100, 604]
    first_tick     \* whether the last tick was the first of its session

vars ==
    <<watchers, settings, timer, timer_state, cmds, reads, seen_valid,
      first_tick>>

----------------------------------------------------------------------------
(* Option<T>: None, or Some(x).                                            *)

None == <<>>

Some(x) == <<x>>

\* a failed boolean read taken as true instead of the default false
unwrap_or_true(o) == IF o = None THEN TRUE ELSE o[1]

unwrap_or_default_bool(o) == IF o = None THEN FALSE ELSE o[1]

unwrap_or_default_int(o) == IF o = None THEN 0 ELSE o[1]

----------------------------------------------------------------------------
(* Bounds of the model and the raw values a tick can read.                 *)

\* the loadScr counter is read in 0..MaxLoadScr
MaxLoadScr == 1

\* raw m_eCurrentScene values: the unloaded code 1, the post-level code 3,
\* the title code 4, level codes inside and outside the flag mapping, the
\* final level, and a menu/transition code above 1000
LevelReads == {1, 3, 4, 102, 150, 604, 1001}

BoolReads == {None} \cup {Some(b) : b \in BOOLEAN}

CounterReads == {None} \cup {Some(n) : n \in 0..MaxLoadScr}

Reads ==
    [is_loading : BoolReads,
     is_loading_2 : CounterReads,
     level_id : {None} \cup {Some(n) : n \in LevelReads},
     tocman_qte : BoolReads]

----------------------------------------------------------------------------
(* Settings: auto start plus one flag per level, all enabled by default.   *)

SettingsDefault ==
    [start |-> TRUE,
     buccaneer_beach |-> TRUE, corsair_cove |-> TRUE,
     crazy_cannonade |-> TRUE, hms_windbag |-> TRUE,
     crisis_cavern |-> TRUE, manic_mines |-> TRUE, anubis_rex |-> TRUE,
     space_race |-> TRUE, far_out |-> TRUE, gimme_space |-> TRUE,
     king_galaxian |-> TRUE,
     clowning_around |-> TRUE, barrel_blast |-> TRUE, barrel_dizzy |-> TRUE,
     clown_prix |-> TRUE,
     perilous_pipes |-> TRUE, under_pressure |-> TRUE,
     down_the_tubes |-> TRUE, krome_keeper |-> TRUE,
     ghostly_garden |-> TRUE, creepy_catacombs |-> TRUE,
     grave_danger |-> TRUE, toc_man_lair |-> TRUE]

\* the configurations explored: the default, and the default with the flag
\* of auto start, of the seed level, of level 102 or of the final level off
SettingsChoices ==
    {SettingsDefault,
     [SettingsDefault EXCEPT !.start = FALSE],
     [SettingsDefault EXCEPT !.buccaneer_beach = FALSE],
     [SettingsDefault EXCEPT !.corsair_cove = FALSE],
     [SettingsDefault EXCEPT !.toc_man_lair = FALSE]}

----------------------------------------------------------------------------
(* asr::watcher: Watcher<T> holds pair: Option<Pair<T>>.                   *)

Pair(old, current) == [old |-> old, current |-> current]

\* the first update seeds old and current with the value; every update then
\* moves current to old and stores the value as current
update_infallible(pair, value) ==
    LET p == IF pair = None THEN Pair(value, value) ELSE pair[1]
    IN  Some(Pair(p.current, value))

changed(p) == p.old # p.current

changed_to(p, v) == p.old # v /\ p.current = v

\* a watcher set that starts a session holding zero values
WatchersSeeded ==
    [is_loading |-> Some(Pair(FALSE, FALSE)), level_id |-> Some(Pair(0, 0)),
     level_id_unfiltered |-> Some(Pair(0, 0)),
     tocman_qte |-> Some(Pair(FALSE, FALSE))]

WatchersDefault ==
    [is_loading |-> None, level_id |-> None,
     level_id_unfiltered |-> None, tocman_qte |-> None]

----------------------------------------------------------------------------
(* update_loop                                                             *)

cur_level_of(r) == unwrap_or_default_int(r.level_id)

\* level_filter without the lower bound of the range test
level_filter_no_lower(w, cur_level) ==
    IF cur_level <= 604
    THEN cur_level
    ELSE IF w.level_id # None THEN w.level_id[1].current ELSE 101

\* level_filter with the upper bound of the range test exclusive
level_filter_exclusive(w, cur_level) ==
    IF cur_level > 100 /\ cur_level < 604
    THEN cur_level
    ELSE IF w.level_id # None THEN w.level_id[1].current ELSE 101

level_filter(w, cur_level) ==
    IF cur_level > 100 /\ cur_level <= 604
    THEN cur_level
    ELSE IF w.level_id # None THEN w.level_id[1].current ELSE 101

\* update_loop with the two loading indicators combined by && instead of ||
update_loop_and(w, r) ==
    LET loading == unwrap_or_default_bool(r.is_loading)
                   /\ unwrap_or_default_int(r.is_loading_2) # 0
        cur_level == cur_level_of(r)
    IN  [is_loading |-> update_infallible(w.is_loading, loading),
         level_id |-> update_infallible(w.level_id, level_filter(w, cur_level)),
         level_id_unfiltered |-> update_infallible(w.level_id_unfiltered, cur_level),
         tocman_qte |-> update_infallible(w.tocman_qte,
                                          unwrap_or_default_bool(r.tocman_qte))]

update_loop(w, r) ==
    LET loading == unwrap_or_default_bool(r.is_loading)
                   \/ unwrap_or_default_int(r.is_loading_2) # 0
        cur_level == cur_level_of(r)
    IN  [is_loading |-> update_infallible(w.is_loading, loading),
         level_id |-> update_infallible(w.level_id, level_filter(w, cur_level)),
         level_id_unfiltered |-> update_infallible(w.level_id_unfiltered, cur_level),
         tocman_qte |-> update_infallible(w.tocman_qte,
                                          unwrap_or_default_bool(r.tocman_qte))]

----------------------------------------------------------------------------
(* The decision layer: start, split, reset, is_loading, game_time.         *)
\* start testing the loading flag's current value instead of changed_to
start_while_loading(w, s) ==
    IF ~s.start
    THEN FALSE
    ELSE /\ w.level_id_unfiltered # None
         /\ w.level_id_unfiltered[1].current = 4
         /\ w.is_loading # None
         /\ w.is_loading[1].current = TRUE

\* start without the test of the title screen code
start_any_level(w, s) ==
    /\ s.start
    /\ w.level_id_unfiltered # None
    /\ w.is_loading # None
    /\ changed_to(w.is_loading[1], TRUE)

start(w, s) ==
    IF ~s.start
    THEN FALSE
    ELSE /\ w.level_id_unfiltered # None
         /\ w.level_id_unfiltered[1].current = 4
         /\ w.is_loading # None
         /\ changed_to(w.is_loading[1], TRUE)

\* level_flag with the arm of 104 copied from 103 and left on its flag
level_flag_copied_arm(s, level) ==
    CASE level = 101 -> s.buccaneer_beach
      [] level = 102 -> s.corsair_cove
      [] level = 103 -> s.crazy_cannonade
      [] level = 104 -> s.crazy_cannonade
      [] level = 201 -> s.crisis_cavern
      [] level = 202 -> s.manic_mines
      [] level = 203 -> s.anubis_rex
      [] level = 301 -> s.space_race
      [] level = 302 -> s.far_out
      [] level = 303 -> s.gimme_space
      [] level = 304 -> s.king_galaxian
      [] level = 401 -> s.clowning_around
      [] level = 402 -> s.barrel_blast
      [] level = 403 -> s.barrel_dizzy
      [] level = 404 -> s.clown_prix
      [] level = 501 -> s.perilous_pipes
      [] level = 502 -> s.under_pressure
      [] level = 503 -> s.down_the_tubes
      [] level = 504 -> s.krome_keeper
      [] level = 601 -> s.ghostly_garden
      [] level = 602 -> s.creepy_catacombs
      [] level = 603 -> s.grave_danger
      [] level = 604 -> s.toc_man_lair
      [] OTHER -> FALSE

\* level_flag with the default arm answering true
level_flag_default_on(s, level) ==
    CASE level = 101 -> s.buccaneer_beach
      [] level = 102 -> s.corsair_cove
      [] level = 103 -> s.crazy_cannonade
      [] level = 104 -> s.hms_windbag
      [] level = 201 -> s.crisis_cavern
      [] level = 202 -> s.manic_mines
      [] level = 203 -> s.anubis_rex
      [] level = 301 -> s.space_race
      [] level = 302 -> s.far_out
      [] level = 303 -> s.gimme_space
      [] level = 304 -> s.king_galaxian
      [] level = 401 -> s.clowning_around
      [] level = 402 -> s.barrel_blast
      [] level = 403 -> s.barrel_dizzy
      [] level = 404 -> s.clown_prix
      [] level = 501 -> s.perilous_pipes
      [] level = 502 -> s.under_pressure
      [] level = 503 -> s.down_the_tubes
      [] level = 504 -> s.krome_keeper
      [] level = 601 -> s.ghostly_garden
      [] level = 602 -> s.creepy_catacombs
      [] level = 603 -> s.grave_danger
      [] level = 604 -> s.toc_man_lair
      [] OTHER -> TRUE

level_flag(s, level) ==
    CASE level = 101 -> s.buccaneer_beach
      [] level = 102 -> s.corsair_cove
      [] level = 103 -> s.crazy_cannonade
      [] level = 104 -> s.hms_windbag
      [] level = 201 -> s.crisis_cavern
      [] level = 202 -> s.manic_mines
      [] level = 203 -> s.anubis_rex
      [] level = 301 -> s.space_race
      [] level = 302 -> s.far_out
      [] level = 303 -> s.gimme_space
      [] level = 304 -> s.king_galaxian
      [] level = 401 -> s.clowning_around
      [] level = 402 -> s.barrel_blast
      [] level = 403 -> s.barrel_dizzy
      [] level = 404 -> s.clown_prix
      [] level = 501 -> s.perilous_pipes
      [] level = 502 -> s.under_pressure
      [] level = 503 -> s.down_the_tubes
      [] level = 504 -> s.krome_keeper
      [] level = 601 -> s.ghostly_garden
      [] level = 602 -> s.creepy_catacombs
      [] level = 603 -> s.grave_danger
      [] level = 604 -> s.toc_man_lair
      [] OTHER -> FALSE

\* level_transition without the old == 3 alternative
level_transition_menu_only(level_id_unfiltered) ==
    /\ changed_to(level_id_unfiltered, 1)
    /\ level_id_unfiltered.old > 1000

level_transition(level_id_unfiltered) ==
    /\ changed_to(level_id_unfiltered, 1)
    /\ (level_id_unfiltered.old = 3 \/ level_id_unfiltered.old > 1000)

\* final_boss without the !changed() test of the unfiltered level id
final_boss_any_tick(w, s) ==
    /\ w.level_id_unfiltered[1].current = 604
    /\ s.toc_man_lair
    /\ w.tocman_qte # None
    /\ changed_to(w.tocman_qte[1], TRUE)

\* final_boss holding for as long as the QTE flag is true
final_boss_while_qte(w, s) ==
    /\ w.level_id_unfiltered[1].current = 604
    /\ ~changed(w.level_id_unfiltered[1])
    /\ s.toc_man_lair
    /\ w.tocman_qte # None
    /\ w.tocman_qte[1].current = TRUE

\* final_boss reading the filtered level id in place of the unfiltered one
final_boss_filtered(w, s) ==
    /\ w.level_id[1].current = 604
    /\ ~changed(w.level_id[1])
    /\ s.toc_man_lair
    /\ w.tocman_qte # None
    /\ changed_to(w.tocman_qte[1], TRUE)

final_boss(w, s) ==
    /\ w.level_id_unfiltered[1].current = 604
    /\ ~changed(w.level_id_unfiltered[1])
    /\ s.toc_man_lair
    /\ w.tocman_qte # None
    /\ changed_to(w.tocman_qte[1], TRUE)

split(w, s) ==
    IF w.level_id_unfiltered = None \/ w.level_id = None
    THEN FALSE
    ELSE IF level_transition(w.level_id_unfiltered[1])
         THEN level_flag(s, w.level_id[1].current)
         ELSE final_boss(w, s)

\* reset firing when the game returns to the title screen
reset_on_title(w, s) ==
    /\ w.level_id_unfiltered # None
    /\ changed_to(w.level_id_unfiltered[1], 4)

reset(w, s) == FALSE

is_loading(w, s) ==
    IF w.is_loading = None THEN None ELSE Some(w.is_loading[1].current)

game_time(w, s) == None

----------------------------------------------------------------------------
(* The host timer (asr::timer): state(), start(), split(), reset(),         *)
(* pause_game_time(), resume_game_time().                                   *)

TimerStates == {"NotRunning", "Running", "Paused", "Ended"}

\* one command applied to the timer; last tells whether the segment being
\* split is the final one, which ends the run
timer_apply(t, c, last) ==
    CASE c = "start" ->
           IF t.state = "NotRunning" THEN [t EXCEPT !.state = "Running"] ELSE t
      [] c = "split" ->
           IF t.state = "Running" /\ last THEN [t EXCEPT !.state = "Ended"] ELSE t
      [] c = "reset" -> [t EXCEPT !.state = "NotRunning"]
      [] c = "pause_game_time" -> [t EXCEPT !.game_time_paused = TRUE]
      [] c = "resume_game_time" -> [t EXCEPT !.game_time_paused = FALSE]

RECURSIVE timer_run(_, _, _)
timer_run(t, cs, last) ==
    IF cs = <<>> THEN t
    ELSE timer_run(timer_apply(t, Head(cs), last), Tail(cs), last)

----------------------------------------------------------------------------
(* main: one iteration of the inner loop, lines 48-84.                     *)

\* lines 52-58 and 75-81: pause or resume game time as is_loading says
loading_commands(w, s) ==
    LET l == is_loading(w, s)
    IN  IF l = None THEN <<>>
        ELSE IF l[1] THEN <<"pause_game_time">> ELSE <<"resume_game_time">>

\* running_commands skipping the block while the timer is paused
running_commands_not_paused(w, s, state) ==
    IF state = "Running"
    THEN loading_commands(w, s)
         \o (IF reset(w, s) THEN <<"reset">>
             ELSE IF split(w, s) THEN <<"split">> ELSE <<>>)
    ELSE <<>>

\* lines 51-69: the block run when the timer is running or paused
running_commands(w, s, state) ==
    IF state = "Running" \/ state = "Paused"
    THEN loading_commands(w, s)
         \o (IF reset(w, s) THEN <<"reset">>
             ELSE IF split(w, s) THEN <<"split">> ELSE <<>>)
    ELSE <<>>

\* start_commands issuing start alone, leaving game time as it was
start_commands_bare(w, s, state) ==
    IF state = "NotRunning" /\ start(w, s)
    THEN <<"start">>
    ELSE <<>>

\* start_commands without the test of the timer state
start_commands_ungated(w, s, state) ==
    IF start(w, s)
    THEN <<"start", "pause_game_time">> \o loading_commands(w, s)
    ELSE <<>>

\* lines 71-82: the block run when the timer is not running
start_commands(w, s, state) ==
    IF state = "NotRunning" /\ start(w, s)
    THEN <<"start", "pause_game_time">> \o loading_commands(w, s)
    ELSE <<>>

valid_level(cur_level) == cur_level > 100 /\ cur_level <= 604

\* an iteration that evaluates the predicates before update_loop has run
main_loop_stale(r) ==
    LET w == update_loop(watchers, r)
        first == running_commands(watchers, settings, timer.state)
        ends == IF timer.state = "Running" /\ first # <<>>
                   /\ first[Len(first)] = "split"
                THEN BOOLEAN ELSE {FALSE}
    IN  \E last \in ends :
            LET t1 == timer_run(timer, first, last)
                second == start_commands(watchers, settings, t1.state)
            IN  /\ watchers' = w
                /\ timer_state' = timer.state
                /\ timer' = timer_run(t1, second, last)
                /\ cmds' = first \o second
                /\ reads' = Some(r)
                /\ seen_valid' = (seen_valid \/ valid_level(cur_level_of(r)))
                /\ first_tick' = (watchers = WatchersDefault)
                /\ UNCHANGED settings

main_loop(r) ==
    LET w == update_loop(watchers, r)
        first == running_commands(w, settings, timer.state)
        \* a split that hits the final segment of a running timer ends the run
        ends == IF timer.state = "Running" /\ first # <<>>
                   /\ first[Len(first)] = "split"
                THEN BOOLEAN ELSE {FALSE}
    IN  \E last \in ends :
            LET t1 == timer_run(timer, first, last)
                second == start_commands(w, settings, t1.state)
            IN  /\ watchers' = w
                /\ timer_state' = timer.state
                /\ timer' = timer_run(t1, second, last)
                /\ cmds' = first \o second
                /\ reads' = Some(r)
                /\ seen_valid' = (seen_valid \/ valid_level(cur_level_of(r)))
                /\ first_tick' = (watchers = WatchersDefault)
                /\ UNCHANGED settings

\* one iteration reading r from the raw reads RS
Tick(RS) == \E r \in RS : main_loop(r)

\* a teardown that carries the watcher set over to the next attachment
ProcessExit_keeps_watchers ==
    /\ watchers # WatchersDefault
    /\ watchers' = watchers
    /\ seen_valid' = FALSE
    /\ timer_state' = "None"
    /\ cmds' = <<>>
    /\ reads' = None
    /\ first_tick' = FALSE
    /\ UNCHANGED <<settings, timer>>

\* the game process exits: until_closes drops the inner loop and the next
\* attachment starts it again with Watchers::default()
ProcessExit ==
    /\ watchers # WatchersDefault
    /\ watchers' = WatchersDefault
    /\ seen_valid' = FALSE
    /\ timer_state' = "None"
    /\ cmds' = <<>>
    /\ reads' = None
    /\ first_tick' = FALSE
    /\ UNCHANGED <<settings, timer>>

----------------------------------------------------------------------------
(* The runner operating the timer by hand between two ticks.               *)

UserStart ==
    /\ timer.state = "NotRunning"
    /\ timer' = [timer EXCEPT !.state = "Running"]
    /\ UNCHANGED <<watchers, settings, timer_state, cmds, reads, seen_valid,
                   first_tick>>

UserPause ==
    /\ timer.state = "Running"
    /\ timer' = [timer EXCEPT !.state = "Paused"]
    /\ UNCHANGED <<watchers, settings, timer_state, cmds, reads, seen_valid,
                   first_tick>>

UserResume ==
    /\ timer.state = "Paused"
    /\ timer' = [timer EXCEPT !.state = "Running"]
    /\ UNCHANGED <<watchers, settings, timer_state, cmds, reads, seen_valid,
                   first_tick>>

UserReset ==
    /\ timer.state # "NotRunning"
    /\ timer' = [timer EXCEPT !.state = "NotRunning"]
    /\ UNCHANGED <<watchers, settings, timer_state, cmds, reads, seen_valid,
                   first_tick>>

----------------------------------------------------------------------------

(* Three instances of the program.  Spec: the control loop with the runner *)
(* operating the timer, over the level codes that start and split a run.   *)
(* SpecDecide: the decision layer over every level code and configuration, *)
(* the timer driven by the loop alone.  SpecUpdate: the update step over   *)
(* every raw read, failed ones included, with auto start off and the timer *)
(* left alone (update_loop reads neither the settings nor the timer).      *)

InitWith(S) ==
    /\ watchers = WatchersDefault
    /\ settings \in S
    /\ timer = [state |-> "NotRunning", game_time_paused |-> FALSE]
    /\ timer_state = "None"
    /\ cmds = <<>>
    /\ reads = None
    /\ seen_valid = FALSE
    /\ first_tick = FALSE

ReadsLoop ==
    [is_loading : BoolReads,
     is_loading_2 : CounterReads,
     level_id : {None} \cup {Some(n) : n \in {1, 4, 1001}},
     tocman_qte : {None}]

SettingsLoop ==
    {SettingsDefault,
     [SettingsDefault EXCEPT !.start = FALSE],
     [SettingsDefault EXCEPT !.buccaneer_beach = FALSE]}

Init == InitWith(SettingsLoop)

Next ==
    \/ Tick(ReadsLoop)
    \/ ProcessExit
    \/ UserStart
    \/ UserPause
    \/ UserResume
    \/ UserReset

Spec == Init /\ [][Next]_vars

ReadsDecide ==
    [is_loading : {Some(b) : b \in BOOLEAN},
     is_loading_2 : {None},
     level_id : {None} \cup {Some(n) : n \in LevelReads},
     tocman_qte : {Some(b) : b \in BOOLEAN}]

InitDecide == InitWith(SettingsChoices)

NextDecide ==
    \/ Tick(ReadsDecide)
    \/ ProcessExit

SpecDecide == InitDecide /\ [][NextDecide]_vars

InitUpdate == InitWith({[SettingsDefault EXCEPT !.start = FALSE]})

ReadsUpdate ==
    [is_loading : BoolReads,
     is_loading_2 : CounterReads,
     level_id : {None} \cup {Some(n) : n \in {1, 102, 604, 1001}},
     tocman_qte : BoolReads]

NextUpdate ==
    \/ Tick(ReadsUpdate)
    \/ ProcessExit

SpecUpdate == InitUpdate /\ [][NextUpdate]_vars

----------------------------------------------------------------------------
(* The properties checked.  They are stated over the raw reads of a tick   *)
(* (reads'), the watcher set before it (watchers) and after it (watchers'). *)

\* the raw values of a tick, a failed read taken as 0 or false
RawLevel(r) == IF r.level_id = None THEN 0 ELSE r.level_id[1]

RawProcessing(r) == r.is_loading = Some(TRUE)

RawLoadScr(r) == IF r.is_loading_2 = None THEN 0 ELSE r.is_loading_2[1]

RawQte(r) == r.tocman_qte = Some(TRUE)

\* the per-level flag named for each level code
FlagOfLevel ==
    [l \in {101, 102, 103, 104, 201, 202, 203, 301, 302, 303, 304, 401, 402,
            403, 404, 501, 502, 503, 504, 601, 602, 603, 604} |->
        CASE l = 101 -> "buccaneer_beach" [] l = 102 -> "corsair_cove"
          [] l = 103 -> "crazy_cannonade" [] l = 104 -> "hms_windbag"
          [] l = 201 -> "crisis_cavern" [] l = 202 -> "manic_mines"
          [] l = 203 -> "anubis_rex" [] l = 301 -> "space_race"
          [] l = 302 -> "far_out" [] l = 303 -> "gimme_space"
          [] l = 304 -> "king_galaxian" [] l = 401 -> "clowning_around"
          [] l = 402 -> "barrel_blast" [] l = 403 -> "barrel_dizzy"
          [] l = 404 -> "clown_prix" [] l = 501 -> "perilous_pipes"
          [] l = 502 -> "under_pressure" [] l = 503 -> "down_the_tubes"
          [] l = 504 -> "krome_keeper" [] l = 601 -> "ghostly_garden"
          [] l = 602 -> "creepy_catacombs" [] l = 603 -> "grave_danger"
          [] l = 604 -> "toc_man_lair"]

ExpectedFlag(s, level) == level \in DOMAIN FlagOfLevel /\ s[FlagOfLevel[level]]

\* the unfiltered level id goes to 1 in this tick from 3 or from above 1000
TransitionTick ==
    /\ watchers.level_id_unfiltered # None
    /\ RawLevel(reads'[1]) = 1
    /\ LET prev == watchers.level_id_unfiltered[1].current
       IN  prev = 3 \/ prev > 1000

\* C1: start is true on a tick exactly when auto start is enabled, the
\* unfiltered level id reads 4 and the loading flag goes from false on the
\* previous tick to true on this one (old not true, current true); so with
\* level 4,4,4 and loading false,true,true it is true at the second tick only.
C1_StartContract ==
    [][reads' # None =>
        /\ start(watchers', settings')
             <=> /\ settings'.start
                 /\ RawLevel(reads'[1]) = 4
                 /\ RawProcessing(reads'[1]) \/ RawLoadScr(reads'[1]) # 0
                 /\ watchers.is_loading # None
                 /\ ~watchers.is_loading[1].current
        /\ start(watchers', settings')
             <=> /\ settings'.start
                 /\ watchers'.level_id_unfiltered[1].current = 4
                 /\ watchers'.is_loading[1].old # TRUE
                 /\ watchers'.is_loading[1].current = TRUE]_vars

\* the loop has issued start: level 4 was read while loading went to true
C1_Witness ==
    /\ cmds # <<>> /\ cmds[1] = "start"
    /\ start(watchers, settings)
    /\ RawLevel(reads[1]) = 4
    /\ watchers.is_loading[1] = Pair(FALSE, TRUE)

\* C2: on a tick where the unfiltered level id changes to 1, split returns
\* the flag of the filtered level id's current value if the previous
\* unfiltered value was 3 or above 1000, and false for any other previous value.
C2_LevelTransitionSplit ==
    [][(/\ reads' # None
        /\ watchers.level_id_unfiltered # None
        /\ RawLevel(reads'[1]) = 1
        /\ watchers.level_id_unfiltered[1].current # 1) =>
        split(watchers', settings')
          = IF TransitionTick
            THEN ExpectedFlag(settings', watchers'.level_id[1].current)
            ELSE FALSE]_vars

\* filtered 102, unfiltered 1001 -> 1, corsair_cove enabled: the loop splits
C2_Witness ==
    /\ watchers.level_id # None
    /\ watchers.level_id[1].current = 102
    /\ watchers.level_id_unfiltered[1] = Pair(1001, 1)
    /\ settings.corsair_cove
    /\ split(watchers, settings)
    /\ cmds # <<>> /\ cmds[Len(cmds)] = "split"

\* C3: on a tick where the level-transition condition does not hold, split
\* is true iff the unfiltered level id is 604 on this tick and the previous
\* one, toc_man_lair is enabled and the QTE flag goes from false to true.
C3_FinalBossSplit ==
    [][(reads' # None /\ ~TransitionTick) =>
        split(watchers', settings')
          <=> /\ RawLevel(reads'[1]) = 604
              /\ watchers.level_id_unfiltered # None
              /\ watchers.level_id_unfiltered[1].current = 604
              /\ settings'.toc_man_lair
              /\ RawQte(reads'[1])
              /\ watchers.tocman_qte # None
              /\ ~watchers.tocman_qte[1].current]_vars

\* level 604 steady, QTE false -> true, toc_man_lair enabled: the loop splits
C3_Witness ==
    /\ watchers.level_id_unfiltered # None
    /\ watchers.level_id_unfiltered[1] = Pair(604, 604)
    /\ watchers.tocman_qte[1] = Pair(FALSE, TRUE)
    /\ settings.toc_man_lair
    /\ split(watchers, settings)
    /\ cmds # <<>> /\ cmds[Len(cmds)] = "split"

\* C4: after every update step the filtered level id's current and old
\* values lie in 101..604, and the current value is the seed 101 as long as
\* the session has read no raw value in (100, 604].
C4_FilteredRange ==
    /\ reads # None => watchers.level_id # None
    /\ watchers.level_id # None =>
         /\ watchers.level_id[1].current \in 101..604
         /\ watchers.level_id[1].old \in 101..604
         /\ ~seen_valid => watchers.level_id[1].current = 101

\* an out-of-range raw value was read and the filtered id is still the seed
C4_Witness ==
    /\ reads # None
    /\ RawLevel(reads[1]) = 1001
    /\ ~seen_valid
    /\ watchers.level_id[1] = Pair(101, 101)
    /\ watchers.level_id_unfiltered[1].old = 1

\* C5: the filtered level id's new current value is the raw reading if
\* 100 < raw <= 604 and otherwise its previous current value (101 if it has
\* none); a failed read counts as raw 0: the unfiltered current becomes 0
\* and the filtered current keeps its value.
C5_FilterRule ==
    [][reads' # None =>
        LET raw == RawLevel(reads'[1])
            prev == IF watchers.level_id = None
                    THEN 101 ELSE watchers.level_id[1].current
        IN  /\ watchers'.level_id[1].current
                 = IF 100 < raw /\ raw <= 604 THEN raw ELSE prev
            /\ watchers'.level_id_unfiltered[1].current = raw
            /\ reads'[1].level_id = None =>
                 /\ watchers'.level_id_unfiltered[1].current = 0
                 /\ watchers'.level_id[1].current = prev]_vars

\* the raw level id read failed after level 604: unfiltered 0, filtered 604
C5_Witness ==
    /\ reads # None
    /\ reads[1].level_id = None
    /\ watchers.level_id_unfiltered[1] = Pair(604, 0)
    /\ watchers.level_id[1] = Pair(604, 604)

\* C6: after every update step the loading watcher's current value is
\* processing OR loadScr # 0 and the QTE watcher's current value is the raw
\* QTE read, failed reads counting as false and 0; processing false and
\* loadScr 0 followed by processing true gives is_loading true and
\* changed_to(true).
C6_LoadingAndQte ==
    [][reads' # None =>
        /\ watchers'.is_loading[1].current
             = (RawProcessing(reads'[1]) \/ RawLoadScr(reads'[1]) # 0)
        /\ watchers'.tocman_qte[1].current = RawQte(reads'[1])
        /\ (/\ reads # None
            /\ ~RawProcessing(reads[1]) /\ RawLoadScr(reads[1]) = 0
            /\ RawProcessing(reads'[1])) =>
             /\ is_loading(watchers', settings') = Some(TRUE)
             /\ changed_to(watchers'.is_loading[1], TRUE)]_vars

\* processing went from false (loadScr 0) to true while the loadScr read failed
C6_Witness ==
    /\ reads # None
    /\ reads[1].is_loading = Some(TRUE)
    /\ reads[1].is_loading_2 = None
    /\ reads[1].tocman_qte = None
    /\ watchers.is_loading[1] = Pair(FALSE, TRUE)
    /\ watchers.tocman_qte[1] = Pair(TRUE, FALSE)

\* C7: reset is false for every watcher set and configuration, and no tick
\* issues a reset command.
C7_NoReset ==
    /\ ~reset(watchers, settings)
    /\ \A i \in 1..Len(cmds) : cmds[i] # "reset"

\* a tick of a running timer evaluated reset, found it false and split
C7_Witness ==
    /\ timer_state = "Running"
    /\ cmds = <<"resume_game_time", "split">>

\* C8: at the end of a tick that found the timer Running or Paused, game
\* time is paused iff the loading watcher's current value is true: the tick
\* issued pause_game_time when it is true and resume_game_time when false.
C8_PauseFollowsLoading ==
    (timer_state = "Running" \/ timer_state = "Paused") =>
        /\ watchers.is_loading # None
        /\ cmds # <<>>
        /\ cmds[1] = IF watchers.is_loading[1].current
                     THEN "pause_game_time" ELSE "resume_game_time"
        /\ timer.game_time_paused = watchers.is_loading[1].current

\* a paused timer's tick paused game time because the game was loading
C8_Witness ==
    /\ timer_state = "Paused"
    /\ watchers.is_loading # None
    /\ watchers.is_loading[1] = Pair(FALSE, TRUE)
    /\ cmds = <<"pause_game_time">>
    /\ timer.game_time_paused

\* C9: a tick that issues start issues pause_game_time next and then the
\* pause or resume is_loading selects, so game time is paused at the end of
\* the tick iff the loading watcher's current value is true.
C9_StartSetsPause ==
    (\E i \in 1..Len(cmds) : cmds[i] = "start") =>
        /\ watchers.is_loading # None
        /\ cmds = <<"start", "pause_game_time",
                    IF watchers.is_loading[1].current
                    THEN "pause_game_time" ELSE "resume_game_time">>
        /\ timer.game_time_paused = watchers.is_loading[1].current

\* the loop started the timer and left game time paused, the game loading
C9_Witness ==
    /\ timer_state = "NotRunning"
    /\ cmds # <<>> /\ cmds[1] = "start"
    /\ timer.state = "Running"
    /\ watchers.is_loading[1].current
    /\ timer.game_time_paused

\* whether the last tick issued command c
Issued(c) == \E i \in 1..Len(cmds) : cmds[i] = c

\* every raw read of the last tick failed
AllReadsFailed ==
    /\ reads # None
    /\ reads[1].is_loading = None
    /\ reads[1].is_loading_2 = None
    /\ reads[1].level_id = None
    /\ reads[1].tocman_qte = None

\* C11: start is issued only in a tick that found the timer NotRunning;
\* split, reset and the loading-driven pause or resume that opens the tick
\* only in a tick that found it Running or Paused; a tick that found it
\* NotRunning with start false issues no command.
C11_TimerGating ==
    /\ Issued("start") => timer_state = "NotRunning"
    /\ (Issued("split") \/ Issued("reset")) =>
         (timer_state = "Running" \/ timer_state = "Paused")
    /\ (cmds # <<>> /\ cmds[1] \in {"pause_game_time", "resume_game_time"}) =>
         (timer_state = "Running" \/ timer_state = "Paused")
    /\ (timer_state = "NotRunning" /\ ~start(watchers, settings)) => cmds = <<>>

\* the timer was not running, the title screen was read with loading already
\* true on the tick before: start is false and nothing is issued
C11_Witness ==
    /\ timer_state = "NotRunning"
    /\ settings.start
    /\ watchers.level_id_unfiltered # None
    /\ watchers.level_id_unfiltered[1].current = 4
    /\ watchers.is_loading[1] = Pair(TRUE, TRUE)
    /\ ~first_tick
    /\ cmds = <<>>

\* C12 as stated: a tick in which every raw read fails issues no command.
C12_NoActionOnFailedReads == AllReadsFailed => cmds = <<>>

\* C12 as the loop runs: a tick in which every raw read fails issues no
\* start, split or reset; it issues resume_game_time, and only that, when it
\* found the timer Running or Paused, and nothing otherwise.
C12_FailedReadsResumeOnly ==
    AllReadsFailed =>
        cmds = IF timer_state = "Running" \/ timer_state = "Paused"
               THEN <<"resume_game_time">> ELSE <<>>

\* every read failed while the timer ran and the game had been loading:
\* game time was resumed
C12_Witness ==
    /\ AllReadsFailed
    /\ timer_state = "Running"
    /\ watchers.is_loading[1] = Pair(TRUE, FALSE)
    /\ cmds = <<"resume_game_time">>
    /\ ~timer.game_time_paused

\* the level codes examined for a gating flag are 0..MaxLevelCode
MaxLevelCode == 1100

\* the per-level flags of Settings: every field but auto start
LevelFlagNames == DOMAIN SettingsDefault \ {"start"}

\* the configuration with flag f enabled and every other flag disabled
OnlyFlag(f) == [g \in DOMAIN SettingsDefault |-> g = f]

\* the flags that, enabled alone, make level_flag true for level code l
FlagsGating(l) == {f \in LevelFlagNames : level_flag(OnlyFlag(f), l)}

\* the level codes the mapping of split knows
MappedCodes == {l \in 0..MaxLevelCode : FlagsGating(l) # {}}

\* each mapped code is gated by one flag, and no flag gates two codes
MappingOneToOne ==
    /\ \A l \in MappedCodes : Cardinality(FlagsGating(l)) = 1
    /\ \A l1, l2 \in MappedCodes :
         l1 # l2 => FlagsGating(l1) \cap FlagsGating(l2) = {}

\* on a level-transition tick split answers with the flag gating the
\* filtered level id's current value
MappingConsulted ==
    (watchers.level_id_unfiltered # None /\ watchers.level_id # None
     /\ level_transition(watchers.level_id_unfiltered[1])) =>
        split(watchers, settings)
          = \E f \in FlagsGating(watchers.level_id[1].current) : settings[f]

\* every per-level flag gates some code
MappingOnto == UNION {FlagsGating(l) : l \in MappedCodes} = LevelFlagNames

MappingEntries == Cardinality(MappedCodes)

LevelFlagCount == Cardinality(LevelFlagNames)

\* the mapping is the one FlagOfLevel names
MappingAsNamed ==
    /\ MappedCodes = DOMAIN FlagOfLevel
    /\ \A l \in DOMAIN FlagOfLevel : FlagsGating(l) = {FlagOfLevel[l]}

\* C13 as stated: the mapping the level-transition split consults is
\* one-to-one and has 24 entries, one for each of 24 per-level flags.
C13_Mapping24 ==
    /\ MappingConsulted
    /\ MappingOneToOne
    /\ MappingOnto
    /\ MappingEntries = 24
    /\ LevelFlagCount = 24

\* C13 as the code has it: the mapping the level-transition split consults
\* is one-to-one and has 23 entries, one for each of the 23 per-level flags
\* (Settings has 24 flags with auto start); it is the mapping FlagOfLevel names.
C13_Mapping23 ==
    /\ MappingConsulted
    /\ MappingOneToOne
    /\ MappingOnto
    /\ MappingEntries = 23
    /\ LevelFlagCount = 23
    /\ Cardinality(DOMAIN SettingsDefault) = 24
    /\ MappingAsNamed

\* a level-transition split consulted the mapping for the seed level 101
C13_Witness ==
    /\ watchers.level_id # None
    /\ watchers.level_id[1].current = 101
    /\ level_transition(watchers.level_id_unfiltered[1])
    /\ settings.buccaneer_beach
    /\ cmds # <<>> /\ cmds[Len(cmds)] = "split"

\* C14: on a tick where the level-transition condition holds and the
\* filtered level id's current value is not a mapped level code (150 here),
\* split is false and no split is issued, whatever the flags and the QTE flag.
C14_UnknownCodesNeverSplit ==
    (/\ watchers.level_id_unfiltered # None
     /\ watchers.level_id # None
     /\ watchers.level_id_unfiltered[1].current = 1
     /\ (watchers.level_id_unfiltered[1].old = 3
         \/ watchers.level_id_unfiltered[1].old > 1000)
     /\ watchers.level_id[1].current \notin DOMAIN FlagOfLevel) =>
        /\ ~split(watchers, settings)
        /\ ~Issued("split")

\* the timer ran, level 150 was left through 1001 -> 1 while the QTE flag
\* went to true, and no split was issued
C14_Witness ==
    /\ timer_state = "Running"
    /\ watchers.level_id # None
    /\ watchers.level_id[1].current = 150
    /\ watchers.level_id_unfiltered[1] = Pair(1001, 1)
    /\ watchers.tocman_qte[1] = Pair(FALSE, TRUE)
    /\ settings = SettingsDefault
    /\ ~Issued("split")

\* the watcher set a session holds after its first update, as a function of
\* that tick's raw reads alone
SessionFirstWatchers(r) ==
    LET raw == RawLevel(r)
        loading == RawProcessing(r) \/ RawLoadScr(r) # 0
    IN  [is_loading |-> Some(Pair(loading, loading)),
         level_id |-> IF raw > 100 /\ raw <= 604
                      THEN Some(Pair(raw, raw))
                      ELSE Some(Pair(101, 101)),
         level_id_unfiltered |-> Some(Pair(raw, raw)),
         tocman_qte |-> Some(Pair(RawQte(r), RawQte(r)))]

\* C15: a process exit leaves an empty watcher set, and the first update of
\* the session that follows gives every watcher old = current = a value
\* computed from that tick's reads alone, the filtered level id being the
\* seed 101 unless the raw read is in (100, 604]; nothing of the previous
\* session survives.
C15_SessionTeardown ==
    [][/\ reads' = None => watchers' = WatchersDefault
       /\ (reads = None /\ reads' # None) =>
              watchers' = SessionFirstWatchers(reads'[1])]_vars

\* the first tick of a later session: the timer already runs, which only an
\* earlier session's start can have caused, the earlier session had started
\* on level code 4, and this tick reads 1001 and seeds the filtered id
C15_Witness ==
    /\ first_tick
    /\ timer_state = "Running"
    /\ reads # None
    /\ reads[1].level_id = Some(1001)
    /\ watchers.level_id = Some(Pair(101, 101))
    /\ watchers.level_id_unfiltered = Some(Pair(1001, 1001))

WatcherNames == DOMAIN WatchersDefault

\* watcher k took one update_infallible in the step: it is defined after it
\* and its old value is the current value it had before (its own new value
\* if it was empty)
UpdatedOnce(k) ==
    /\ watchers'[k] # None
    /\ watchers'[k][1].old = IF watchers[k] = None
                             THEN watchers'[k][1].current
                             ELSE watchers[k][1].current

\* C16: every tick updates each of the four watchers once before anything
\* is decided: after the tick every watcher is defined, is_loading is
\* defined, and the commands issued are those the predicates give on the
\* updated watcher set -- a pause or resume first whenever the timer was
\* running or paused, a split exactly when split holds there, a start
\* exactly when the timer was not running and start holds.
C16_UpdateFirst ==
    [][reads' # None =>
        /\ \A k \in WatcherNames : UpdatedOnce(k)
        /\ watchers'.level_id_unfiltered[1].current = RawLevel(reads'[1])
        /\ is_loading(watchers', settings') # None
        /\ timer_state' \in {"Running", "Paused"} =>
              /\ cmds' # <<>>
              /\ cmds'[1] = IF watchers'.is_loading[1].current
                            THEN "pause_game_time" ELSE "resume_game_time"
              /\ Issued("split")' = split(watchers', settings')
        /\ timer_state' = "NotRunning" =>
              Issued("start")' = start(watchers', settings')
        /\ timer_state' \notin {"Running", "Paused"} => ~Issued("split")'
        /\ timer_state' \notin {"NotRunning", "Running", "Paused"} =>
              cmds' = <<>>]_vars

\* the first tick of a session met a running timer: the watchers were empty
\* when the tick began, and is_loading was defined when it was applied
C16_Witness ==
    /\ first_tick
    /\ timer_state = "Running"
    /\ watchers.is_loading = Some(Pair(TRUE, TRUE))
    /\ cmds = <<"pause_game_time">>

\* C17: within a session split is never true on two consecutive ticks, and
\* split is never issued on two consecutive ticks.
C17_NoDoubleSplit ==
    [][(reads # None /\ reads' # None) =>
        /\ split(watchers, settings) => ~split(watchers', settings')
        /\ Issued("split") => ~Issued("split")']_vars

\* a split was issued on the final-boss condition and the timer still runs,
\* so the next tick evaluates split again
C17_Witness ==
    /\ Issued("split")
    /\ split(watchers, settings)
    /\ timer.state = "Running"
    /\ watchers.level_id_unfiltered[1] = Pair(604, 604)
    /\ watchers.tocman_qte[1] = Pair(FALSE, TRUE)

\* C18: start and split are never both true of the watcher set of a tick,
\* and no tick issues both a start and a split.
C18_StartSplitExclusive ==
    /\ ~(start(watchers, settings) /\ split(watchers, settings))
    /\ ~(Issued("start") /\ Issued("split"))

\* start held and was issued on a tick where the QTE flag went to true with
\* the final level's flag enabled
C18_Witness ==
    /\ Issued("start")
    /\ start(watchers, settings)
    /\ settings.toc_man_lair
    /\ watchers.tocman_qte[1] = Pair(FALSE, TRUE)
    /\ ~split(watchers, settings)

\* the guard of the level-transition condition on the watcher set
SplitGuard ==
    /\ watchers.level_id_unfiltered[1].current = 1
    /\ watchers.level_id_unfiltered[1].old # 1
    /\ (watchers.level_id_unfiltered[1].old = 3
        \/ watchers.level_id_unfiltered[1].old > 1000)

\* condition 1: the guard and the enabled flag of the filtered level
SplitCondition1 ==
    /\ SplitGuard
    /\ ExpectedFlag(settings, watchers.level_id[1].current)

\* condition 2, stated without regard to condition 1
SplitCondition2 ==
    /\ watchers.level_id_unfiltered[1].current = 604
    /\ watchers.level_id_unfiltered[1].old = 604
    /\ settings.toc_man_lair
    /\ watchers.tocman_qte[1].old = FALSE
    /\ watchers.tocman_qte[1].current = TRUE

\* C19: on every tick the guard of condition 1 and condition 2 exclude each
\* other, and split equals "condition 1 or condition 2".
C19_SplitIsDisjunction ==
    watchers # WatchersDefault =>
        /\ ~(SplitGuard /\ SplitCondition2)
        /\ split(watchers, settings) = (SplitCondition1 \/ SplitCondition2)

\* the guard held with the level's flag disabled while the QTE flag went to
\* true with the final level's flag enabled: no fall-through, no split
C19_Witness ==
    /\ timer_state = "Running"
    /\ watchers # WatchersDefault
    /\ SplitGuard
    /\ watchers.level_id[1].current = 102
    /\ ~settings.corsair_cove
    /\ settings.toc_man_lair
    /\ watchers.tocman_qte[1] = Pair(FALSE, TRUE)
    /\ ~split(watchers, settings)
    /\ ~Issued("split")

\* C20: on the first tick of a session no watcher reports a change, start
\* and split are both false, and neither a start nor a split is issued,
\* whatever the reads, the timer state and the configuration.
C20_FirstTickQuiet ==
    first_tick =>
        /\ \A k \in WatcherNames :
              watchers[k] # None /\ ~changed(watchers[k][1])
        /\ ~start(watchers, settings)
        /\ ~split(watchers, settings)
        /\ ~Issued("start")
        /\ ~Issued("split")

\* a first tick that read loading = true on level code 4 with auto start on
\* and the timer not running: nothing was issued
C20_Witness ==
    /\ first_tick
    /\ settings.start
    /\ timer_state = "NotRunning"
    /\ reads[1].is_loading = Some(TRUE)
    /\ reads[1].level_id = Some(4)
    /\ cmds = <<>>

\* a first tick that read level code 604 with the QTE flag true while the
\* timer ran: no split was issued
C20_WitnessFinalBoss ==
    /\ first_tick
    /\ settings.toc_man_lair
    /\ timer_state = "Running"
    /\ reads[1].level_id = Some(604)
    /\ reads[1].tocman_qte = Some(TRUE)
    /\ ~Issued("split")

TypeOK ==
    /\ settings \in SettingsChoices
    /\ timer.state \in TimerStates
    /\ timer.game_time_paused \in BOOLEAN
    /\ timer_state \in TimerStates \cup {"None"}
    /\ seen_valid \in BOOLEAN
    /\ first_tick \in BOOLEAN
    /\ reads # None => reads[1] \in Reads

====
